---------------------------- MODULE Spec2Model ----------------------------
(***************************************************************************)
(* A model of platforms/platmgr/tools/rtl_src_config.py: the manifest      *)
(* parser (parseConfigFile, fixRelPath, addDefaultFpgaFamily), the tag     *)
(* tables (lookupTag, validateTag) and the directive emitter (emitCfg).    *)
(*                                                                         *)
(* Python strings are TLA+ strings; Len, SubSeq, Head, Tail and \o act on  *)
(* them character by character.  Python lists are TLA+ sequences.          *)
(***************************************************************************)
EXTENDS Integers, Sequences, FiniteSets, TLC

VARIABLES
    pc,            \* position of the run: which function is executing, or how it ended
    opts,          \* the parsed command line (argparse namespace of main)
    world,         \* what lies outside the process: manifests, the release library, the family command
    environ,       \* os.environ, restricted to the variables the script reads
    stack,         \* the active parseConfigFile calls, outermost first
    cfg,           \* the list main receives from parseConfigFile and passes to emitCfg
    out,           \* the lines printed on stdout, each with the position of the entry it came from
    exit_msg,      \* the message of errorExit, or of the uncaught exception, that ended the run
    invocations,   \* how many times the afu_platform_info command was started
    refs,          \* how many manifest lines referencing OPAE_PLATFORM_FPGA_FAMILY were read
    returned,      \* the manifests whose parseConfigFile call has returned
    steps,         \* how many steps the parser has taken
    pos,           \* position in cfg of the entry the current loop of emitCfg is at
    filename,      \* argument of lookupTag / validateTag
    db,            \* which tag table lookupTag was given
    tag,           \* what lookupTag returned
    c,             \* argument of fixRelPath
    config_dir,    \* argument of fixRelPath
    once,          \* fixRelPath(c)
    twice          \* fixRelPath(fixRelPath(c))

vars == <<pc, opts, world, environ, stack, cfg, out, exit_msg, invocations,
          refs, returned, steps, pos, filename, db, tag, c, config_dir, once, twice>>

parseVars == <<stack, environ, invocations, refs, returned, steps>>
emitVars  == <<out, pos>>
tagVars   == <<filename, db, tag>>
pathVars  == <<c, config_dir, once, twice>>

-----------------------------------------------------------------------------
(* Python string primitives *)

Min(a, b) == IF a <= b THEN a ELSE b
Max(a, b) == IF a >= b THEN a ELSE b

\* s[:n]
Take(s, n) == SubSeq(s, 1, Min(n, Len(s)))

\* s[n:]
Drop(s, n) == SubSeq(s, Min(n, Len(s)) + 1, Len(s))

\* the i-th character (1-based), "" past the end
At(s, i) == IF i >= 1 /\ i <= Len(s) THEN SubSeq(s, i, i) ELSE ""

\* s.find(t, from): the first 1-based position >= from where t occurs, 0 if none
RECURSIVE FindFrom(_, _, _)
FindFrom(s, t, from) ==
    IF from + Len(t) - 1 > Len(s) THEN 0
    ELSE IF SubSeq(s, from, from + Len(t) - 1) = t THEN from
    ELSE FindFrom(s, t, from + 1)

Find(s, t) == FindFrom(s, t, 1)

\* t in s
Contains(s, t) == Find(s, t) # 0

\* s.rfind(ch) for a single character: the last 1-based position, 0 if none
RECURSIVE RFindFrom(_, _, _)
RFindFrom(s, ch, from) ==
    IF from < 1 THEN 0
    ELSE IF At(s, from) = ch THEN from
    ELSE RFindFrom(s, ch, from - 1)

RFind(s, ch) == RFindFrom(s, ch, Len(s))

Whitespace == {" ", "\t", "\n", "\r"}

RECURSIVE LStrip(_)
LStrip(s) == IF s # "" /\ Head(s) \in Whitespace THEN LStrip(Tail(s)) ELSE s

RECURSIVE RStrip(_)
RStrip(s) ==
    IF s # "" /\ At(s, Len(s)) \in Whitespace THEN RStrip(Take(s, Len(s) - 1)) ELSE s

\* s.strip()
Strip(s) == RStrip(LStrip(s))

\* s.rstrip('/')
RECURSIVE RStripSlash(_)
RStripSlash(s) ==
    IF s # "" /\ At(s, Len(s)) = "/" THEN RStripSlash(Take(s, Len(s) - 1)) ELSE s

\* s.split(sep, 1) for a single-character sep: one or two pieces
Split1(s, sep) ==
    LET i == Find(s, sep)
    IN  IF i = 0 THEN <<s>> ELSE <<Take(s, i - 1), Drop(s, i)>>

\* s.split(sep) for a single-character sep: all pieces
RECURSIVE SplitAll(_, _)
SplitAll(s, sep) ==
    LET i == Find(s, sep)
    IN  IF i = 0 THEN <<s>> ELSE <<Take(s, i - 1)>> \o SplitAll(Drop(s, i), sep)

\* sep.join(parts)
RECURSIVE Join(_, _)
Join(parts, sep) ==
    IF parts = <<>> THEN ""
    ELSE IF Len(parts) = 1 THEN parts[1]
    ELSE parts[1] \o sep \o Join(Tail(parts), sep)

UpperLetters == "ABCDEFGHIJKLMNOPQRSTUVWXYZ"
LowerLetters == "abcdefghijklmnopqrstuvwxyz"
Digits       == "0123456789"

\* s.lower()
RECURSIVE Lower(_)
Lower(s) ==
    IF s = "" THEN ""
    ELSE LET i == Find(UpperLetters, Head(s))
         IN  (IF i = 0 THEN Head(s) ELSE At(LowerLetters, i)) \o Lower(Tail(s))

\* the regular expression class \w, for ASCII
IsWordChar(ch) ==
    ch # "" /\ (Contains(UpperLetters, ch) \/ Contains(LowerLetters, ch)
                \/ Contains(Digits, ch) \/ ch = "_")

-----------------------------------------------------------------------------
(* os.path (posixpath) as the script uses it *)

\* os.getcwd(): the directory the script is started in
cwd == world.cwd

isabs(p) == Take(p, 1) = "/"

\* os.path.join(a, b)
join(a, b) ==
    IF isabs(b) THEN b
    ELSE IF a = "" \/ At(a, Len(a)) = "/" THEN a \o b
    ELSE a \o "/" \o b

\* the component loop of normpath: '' and '.' are skipped, '..' pops a name
RECURSIVE NormComps(_, _, _)
NormComps(comps, acc, rooted) ==
    IF comps = <<>> THEN acc
    ELSE LET comp == Head(comps)
             rest == Tail(comps)
         IN  IF comp \in {"", "."} THEN NormComps(rest, acc, rooted)
             ELSE IF comp # ".."
                     \/ (~rooted /\ acc = <<>>)
                     \/ (acc # <<>> /\ acc[Len(acc)] = "..")
                  THEN NormComps(rest, Append(acc, comp), rooted)
             ELSE IF acc # <<>>
                  THEN NormComps(rest, SubSeq(acc, 1, Len(acc) - 1), rooted)
             ELSE NormComps(rest, acc, rooted)

\* os.path.normpath(p)
normpath(p) ==
    IF p = "" THEN "."
    ELSE LET slashes == IF ~isabs(p) THEN 0
                        ELSE IF Take(p, 2) = "//" /\ Take(p, 3) # "///" THEN 2
                        ELSE 1
             comps   == NormComps(SplitAll(p, "/"), <<>>, slashes > 0)
             body    == Join(comps, "/")
             res     == Take("//", slashes) \o body
         IN  IF res = "" THEN "." ELSE res

\* os.path.abspath(p)
abspath(p) == normpath(IF isabs(p) THEN p ELSE join(cwd, p))

\* [x for x in p.split('/') if x]
RECURSIVE NonEmpty(_)
NonEmpty(parts) ==
    IF parts = <<>> THEN <<>>
    ELSE (IF Head(parts) = "" THEN <<>> ELSE <<Head(parts)>>) \o NonEmpty(Tail(parts))

\* len(os.path.commonprefix([a, b])) on component lists
RECURSIVE CommonLen(_, _)
CommonLen(a, b) ==
    IF a = <<>> \/ b = <<>> \/ Head(a) # Head(b) THEN 0
    ELSE 1 + CommonLen(Tail(a), Tail(b))

\* os.path.relpath(path, start); path is never empty here (relpath raises
\* ValueError on an empty path)
relpath(path, start) ==
    LET start_list == NonEmpty(SplitAll(abspath(start), "/"))
        path_list  == NonEmpty(SplitAll(abspath(path), "/"))
        i          == CommonLen(start_list, path_list)
        rel_list   == [k \in 1..(Len(start_list) - i) |-> ".."]
                      \o SubSeq(path_list, i + 1, Len(path_list))
    IN  IF rel_list = <<>> THEN "." ELSE Join(rel_list, "/")

\* os.path.dirname(p)
dirname(p) ==
    LET head == Take(p, RFind(p, "/"))
    IN  IF head # "" /\ RStripSlash(head) # "" THEN RStripSlash(head) ELSE head

\* the directories that exist, as absolute normalized paths: the working
\* directory, its ancestors, and a source tree below it
Directories ==
    {"/", cwd, dirname(cwd)} \cup
    {cwd \o d : d \in {"/src", "/src/sub", "/src/rtl", "/rtl", "/build"}}

\* os.path.isdir(p)
isdir(p) == abspath(p) \in Directories

\* os.path.splitext(p)[1]: the extension, from the last dot of the last
\* component, unless that component has only leading dots before it
RECURSIVE OnlyDots(_, _, _)
OnlyDots(p, from, to) ==
    IF from >= to THEN TRUE
    ELSE IF At(p, from) # "." THEN FALSE
    ELSE OnlyDots(p, from + 1, to)

splitext_ext(p) ==
    LET sepIndex == RFind(p, "/")
        dotIndex == RFind(p, ".")
    IN  IF dotIndex > sepIndex /\ ~OnlyDots(p, sepIndex + 1, dotIndex)
        THEN Drop(p, dotIndex - 1)
        ELSE ""

-----------------------------------------------------------------------------
(* Suffix to tag tables *)

quartus_tag_map ==
    (".v"    :> "VERILOG_FILE") @@
    (".sv"   :> "SYSTEMVERILOG_FILE") @@
    (".vh"   :> "SYSTEMVERILOG_FILE") @@
    (".svh"  :> "SYSTEMVERILOG_FILE") @@
    (".vhd"  :> "VHDL_FILE") @@
    (".vhdl" :> "VHDL_FILE") @@
    (".sdc"  :> "SDC_FILE") @@
    (".qsys" :> "QSYS_FILE") @@
    (".ip"   :> "IP_FILE") @@
    (".qip"  :> "QIP_FILE") @@
    (".json" :> "MISC_FILE") @@
    (".tcl"  :> "SOURCE_TCL_SCRIPT_FILE") @@
    (".stp"  :> "USE_SIGNALTAP_FILE") @@
    (".hex"  :> "MIF_FILE") @@
    (".mif"  :> "MIF_FILE")

qsys_tag_map ==
    (".qsys" :> "QSYS_FILE") @@
    (".qip"  :> "QIP_FILE") @@
    (".ip"   :> "IP_FILE")

tcl_tag_map == (".tcl" :> "SOURCE_TCL_SCRIPT_FILE")

qsys_ipx_tag_map == (".ipx" :> "IPX_FILE")

json_tag_map == (".json" :> "MISC_FILE")

sim_vlog_tag_map ==
    (".v"    :> "VERILOG_FILE") @@
    (".sv"   :> "SYSTEMVERILOG_FILE") @@
    (".vh"   :> "SYSTEMVERILOG_FILE") @@
    (".svh"  :> "SYSTEMVERILOG_FILE") @@
    (".json" :> "MISC_FILE")

sim_vhdl_tag_map ==
    (".vhd"  :> "VHDL_FILE") @@
    (".vhdl" :> "VHDL_FILE")

\* the tables by name, for the lookupTag harness
TagMaps ==
    [quartus  |-> quartus_tag_map,
     qsys     |-> qsys_tag_map,
     tcl      |-> tcl_tag_map,
     ipx      |-> qsys_ipx_tag_map,
     json     |-> json_tag_map,
     sim_vlog |-> sim_vlog_tag_map,
     sim_vhdl |-> sim_vhdl_tag_map]

\* Python's None
None == "None"

\* lookupTag without the ext.lower() of line 95
lookupTag_CaseSensitive(name, map) ==
    LET ext == splitext_ext(name)
    IN  IF ext \notin DOMAIN map THEN None ELSE map[ext]

\* lookupTag(filename, db)
lookupTag(name, map) ==
    LET ext == Lower(splitext_ext(name))
    IN  IF ext \notin DOMAIN map THEN None ELSE map[ext]

\* validateTag that accepts every extension
validateTag_Lenient(name) == TRUE

\* validateTag(filename): TRUE when it returns, FALSE when it calls errorExit
validateTag(name) ==
    LET ext == Lower(splitext_ext(name))
    IN  ~(  ext \notin DOMAIN quartus_tag_map
         /\ ext \notin DOMAIN qsys_tag_map
         /\ ext \notin DOMAIN tcl_tag_map
         /\ ext \notin DOMAIN qsys_ipx_tag_map
         /\ ext \notin DOMAIN json_tag_map
         /\ ext \notin DOMAIN sim_vlog_tag_map
         /\ ext \notin DOMAIN sim_vhdl_tag_map)

-----------------------------------------------------------------------------
(* The command line *)

\* the mutually exclusive target flags of main; "" is no flag at all
TargetFlags == {"", "--sim", "--sim-vlog", "--sim-vhdl", "--qsf", "--qsys", "--tcl", "--ipx", "--json"}

\* parser.parse_args and the --sim / --sim-vlog / --sim-vhdl fix-up of main.
\* -r and -a exclude each other, so with -a opts.rel is its default, os.getcwd().
ParseArgs(config_file, flag, rel, abs, quiet, lib) ==
    [config_file |-> config_file,
     sim      |-> flag \in {"--sim", "--sim-vlog", "--sim-vhdl"},
     sim_vlog |-> flag \in {"--sim", "--sim-vlog"},
     sim_vhdl |-> flag = "--sim-vhdl",
     qsf      |-> flag = "--qsf",
     qsys     |-> flag = "--qsys",
     tcl      |-> flag = "--tcl",
     ipx      |-> flag = "--ipx",
     json     |-> flag = "--json",
     rel      |-> IF abs THEN cwd ELSE rel,
     abs      |-> abs,
     quiet    |-> quiet,
     lib      |-> lib]

\* values of the variables a specification does not use
NoEnv   == [v \in {} |-> ""]
NoWorld == [cwd |-> "/w", manifest |-> <<>>, stdout |-> <<>>, rc |-> 0, release |-> {},
            environ |-> NoEnv]
NoOpts  == ParseArgs("", "", "/w", FALSE, FALSE, None)

-----------------------------------------------------------------------------
(* lookupTag and validateTag applied to file names *)

\* s.upper(), to write the inputs in every letter case
RECURSIVE Upper(_)
Upper(s) ==
    IF s = "" THEN ""
    ELSE LET i == Find(LowerLetters, Head(s))
         IN  (IF i = 0 THEN Head(s) ELSE At(UpperLetters, i)) \o Upper(Tail(s))

\* the extensions of the documented table, and some outside every table
KnownExts == {".v", ".sv", ".vh", ".svh", ".vhd", ".vhdl", ".sdc", ".qsys", ".ip",
              ".qip", ".json", ".tcl", ".stp", ".hex", ".mif", ".ipx"}
OtherExts == {".xyz", ".txt", "", "."}

\* an extension in lower case, in upper case, and with only its first letter raised
Cases(ext) == {ext, Upper(ext), Take(ext, 1) \o Upper(At(ext, 2)) \o Drop(ext, 2)}

TagInputs ==
    {base \o e : base \in {"top", "rtl/core.d/top", ".hidden"},
                 e \in UNION {Cases(ext) : ext \in KnownExts \cup OtherExts}}

InitTag ==
    /\ pc = "tag_input"
    /\ filename \in TagInputs
    /\ db = ""
    /\ tag = None
    /\ world = NoWorld /\ opts = NoOpts /\ environ = NoEnv
    /\ stack = <<>> /\ cfg = <<>> /\ out = <<>> /\ pos = 0 /\ exit_msg = ""
    /\ invocations = 0 /\ refs = 0 /\ returned = {} /\ steps = 0
    /\ c = "" /\ config_dir = "" /\ once = "" /\ twice = ""

\* tag = lookupTag(filename, <table>)
LookupTagCall ==
    /\ pc = "tag_input"
    /\ \E d \in DOMAIN TagMaps :
          /\ db' = d
          /\ tag' = lookupTag(filename, TagMaps[d])
    /\ pc' = "tag_looked_up"
    /\ UNCHANGED <<opts, world, environ, cfg, exit_msg, filename>>
    /\ UNCHANGED <<parseVars, emitVars, pathVars>>

\* validateTag(filename)
ValidateTagCall ==
    /\ pc = "tag_input"
    /\ IF validateTag(filename)
       THEN pc' = "tag_valid" /\ exit_msg' = exit_msg
       ELSE /\ pc' = "fatal"
            /\ exit_msg' = "unrecognized file extension"
    /\ UNCHANGED <<opts, world, environ, cfg, filename, db, tag>>
    /\ UNCHANGED <<parseVars, emitVars, pathVars>>

NextTag == LookupTagCall \/ ValidateTagCall

SpecTag == InitTag /\ [][NextTag]_vars

-----------------------------------------------------------------------------
(* Paths in directives, made relative to the target directory *)

\* the prefix fixRelPath keeps and the path it rewrites
SplitDirective(entry, cdir) ==
    IF Take(entry, 8) = "+incdir+"
    THEN [prefix |-> "+incdir+", path |-> Drop(entry, 8)]
    ELSE LET split == Split1(entry, ":")
         IN  IF Len(split) <= 1
             THEN [prefix |-> IF isdir(join(cdir, entry)) THEN "+incdir+" ELSE "",
                   path   |-> entry]
             ELSE [prefix |-> split[1] \o ":", path |-> split[2]]

\* fixRelPath raises ValueError: os.path.relpath is given an empty path
fixRelPathRaises(entry, cdir) ==
    /\ Len(entry) # 0
    /\ Take(entry, 8) # "+define+"
    /\ join(cdir, SplitDirective(entry, cdir).path) = ""

\* fixRelPath with the configuration directory joined in a second time in -a mode
fixRelPath_JoinTwice(o, entry, cdir, tdir) ==
    IF Len(entry) = 0 THEN entry
    ELSE IF Take(entry, 8) = "+define+" THEN entry
    ELSE LET d == SplitDirective(entry, cdir)
             p == relpath(join(cdir, d.path), tdir)
         IN  d.prefix \o (IF o.abs THEN abspath(join(cdir, p)) ELSE p)

\* fixRelPath(opts, c, config_dir, tgt_dir), where it does not raise
fixRelPath(o, entry, cdir, tdir) ==
    IF Len(entry) = 0 THEN entry
    ELSE IF Take(entry, 8) = "+define+" THEN entry
    ELSE LET d == SplitDirective(entry, cdir)
             p == relpath(join(cdir, d.path), tdir)
         IN  d.prefix \o (IF o.abs THEN abspath(p) ELSE p)

\* manifest entries, manifest directories and target directories to normalize
PathEntries ==
    {"top.sv", "rtl", "..", "+define+FOO", "+incdir+../rtl", "QI:setup.tcl",
     "SI:sub/sim.f", "SI_VHDL:a:b.tcl", "/w/rtl/abs.sv", "a/../b.v", "./x//y.sv", "QI:"}
ConfigDirs == {"", "src", "/w/src", "src/sub", ".."}
TargetDirs == {"/w", "/w/src", "src", "build", "/o/p"}
WorkDirs   == {"/w", "/w:x"}

InitPath ==
    /\ pc = "path_input"
    /\ world \in {[NoWorld EXCEPT !.cwd = d] : d \in WorkDirs}
    /\ \E rel \in TargetDirs, abs \in BOOLEAN :
          opts = ParseArgs("", "", rel, abs, FALSE, None)
    /\ c \in PathEntries
    /\ config_dir \in ConfigDirs
    /\ once = "" /\ twice = ""
    /\ environ = NoEnv
    /\ stack = <<>> /\ cfg = <<>> /\ out = <<>> /\ pos = 0 /\ exit_msg = ""
    /\ invocations = 0 /\ refs = 0 /\ returned = {} /\ steps = 0
    /\ filename = "" /\ db = "" /\ tag = None

\* once = fixRelPath(opts, c, config_dir, opts.rel)
FixRelPathCall ==
    /\ pc = "path_input"
    /\ IF fixRelPathRaises(c, config_dir)
       THEN /\ pc' = "crash"
            /\ exit_msg' = "ValueError: no path specified"
            /\ once' = once
       ELSE /\ pc' = "path_once"
            /\ once' = fixRelPath(opts, c, config_dir, opts.rel)
            /\ exit_msg' = exit_msg
    /\ UNCHANGED <<opts, world, environ, cfg, c, config_dir, twice>>
    /\ UNCHANGED <<parseVars, emitVars, tagVars>>

\* twice = fixRelPath(opts, once, config_dir, opts.rel)
FixRelPathAgain ==
    /\ pc = "path_once"
    /\ ~fixRelPathRaises(once, config_dir)
    /\ pc' = "path_twice"
    /\ twice' = fixRelPath(opts, once, config_dir, opts.rel)
    /\ UNCHANGED <<opts, world, environ, cfg, exit_msg, c, config_dir, once>>
    /\ UNCHANGED <<parseVars, emitVars, tagVars>>

NextPath == FixRelPathCall \/ FixRelPathAgain

SpecPath == InitPath /\ [][NextPath]_vars

-----------------------------------------------------------------------------
(* Environment variables and the FPGA family *)

FAMILY == "OPAE_PLATFORM_FPGA_FAMILY"

\* the end of the variable reference that starts with the '$' at position k:
\* the position after \w+ or after {...}; 0 when no reference starts there
RECURSIVE WordEnd(_, _)
WordEnd(s, i) == IF IsWordChar(At(s, i)) THEN WordEnd(s, i + 1) ELSE i

RefEnd(s, k) ==
    IF At(s, k + 1) = "{"
    THEN LET e == FindFrom(s, "}", k + 2) IN IF e = 0 THEN 0 ELSE e + 1
    ELSE LET e == WordEnd(s, k + 1) IN IF e = k + 1 THEN 0 ELSE e

RefName(s, k, j) ==
    IF At(s, k + 1) = "{" THEN SubSeq(s, k + 2, j - 2) ELSE SubSeq(s, k + 1, j - 1)

\* os.path.expandvars(path), from position i on: $NAME and ${NAME} are replaced
\* when NAME is set and left as they are when it is not
RECURSIVE ExpandFrom(_, _, _)
ExpandFrom(path, i, env) ==
    LET k == FindFrom(path, "$", i)
    IN  IF k = 0 THEN path
        ELSE LET j == RefEnd(path, k)
             IN  IF j = 0 THEN ExpandFrom(path, k + 1, env)
                 ELSE LET name == RefName(path, k, j)
                      IN  IF name \in DOMAIN env
                          THEN ExpandFrom(Take(path, k - 1) \o env[name] \o Drop(path, j - 1),
                                          k + Len(env[name]), env)
                          ELSE ExpandFrom(path, j, env)

expandvars(path, env) == ExpandFrom(path, 1, env)

\* os.path.exists(os.path.join(dir, 'fme-platform-class.txt'))
IsRelease(dir) == abspath(dir) \in world.release

\* getHWLibPath(opts): the directory, or the message of errorExit
getHWLibPath(o, env) ==
    LET found == o.lib # None \/ "BBS_LIB_PATH" \in DOMAIN env
                             \/ "OPAE_PLATFORM_ROOT" \in DOMAIN env
        hw_lib_dir ==
            IF o.lib # None THEN o.lib
            ELSE IF "BBS_LIB_PATH" \in DOMAIN env THEN RStripSlash(env["BBS_LIB_PATH"])
            ELSE join(RStripSlash(env["OPAE_PLATFORM_ROOT"]), "hw/lib")
    IN  IF ~found
        THEN [ok |-> FALSE, msg |-> "Release hw/lib directory must be specified"]
        ELSE IF ~IsRelease(hw_lib_dir)
        THEN [ok |-> FALSE, msg |-> "not a release hw/lib directory"]
        ELSE [ok |-> TRUE, dir |-> hw_lib_dir]

\* the loop over proc.stdout: each line, stripped, is stored in turn
RECURSIVE StoreLines(_, _)
StoreLines(lines, env) ==
    IF lines = <<>> THEN env
    ELSE StoreLines(Tail(lines), (FAMILY :> Strip(Head(lines))) @@ env)

\* the try block of addDefaultFpgaFamily, entered when the variable is not set
RunFamilyCommand(o, env) ==
    LET lib == getHWLibPath(o, env)
    IN  IF ~lib.ok
        THEN [ok |-> FALSE, env |-> env, started |-> 0, msg |-> lib.msg]
        ELSE LET env2 == StoreLines(world.stdout, env)
             IN  IF world.rc # 0
                 THEN [ok |-> FALSE, env |-> env2, started |-> 1,
                       msg |-> "failed to set OPAE_PLATFORM_FPGA_FAMILY"]
                 ELSE IF ~o.quiet /\ FAMILY \notin DOMAIN env2
                 THEN [ok |-> FALSE, env |-> env2, started |-> 1,
                       msg |-> "failed to set OPAE_PLATFORM_FPGA_FAMILY (KeyError)"]
                 ELSE [ok |-> TRUE, env |-> env2, started |-> 1, msg |-> ""]

\* addDefaultFpgaFamily(opts): the environment afterwards, how many commands
\* it started, and whether it returned (ok) or called errorExit (msg).  With
\* no line on stdout the variable stays unset, and reading it back for the
\* message to stderr raises KeyError, which the except clause turns into
\* errorExit; with -q it is not read back.
addDefaultFpgaFamily(o, env) ==
    IF FAMILY \in DOMAIN env
    THEN [ok |-> TRUE, env |-> env, started |-> 0, msg |-> ""]
    ELSE RunFamilyCommand(o, env)

-----------------------------------------------------------------------------
(* Recursive parse of configuration files *)

\* the manifests that can be opened, by absolute path: the one named on the
\* command line, whose lines are drawn in the initial state, and the fixed
\* ones it can include
Manifests ==
    (cwd \o "/src/a.txt"     :> world.manifest) @@
    (cwd \o "/src/b.txt"     :> <<"top.sv\n">>) @@
    (cwd \o "/src/sub/d.txt" :> <<"+incdir+inc\n", "C:../b.txt\n",
                                  "ip_$OPAE_PLATFORM_FPGA_FAMILY.qsys\n">>) @@
    (cwd \o "/src/loop.txt"  :> <<"core.vhd\n", "C:a.txt\n">>)

\* open(cfg_file_name) succeeds
CanOpen(name) == abspath(name) \in DOMAIN Manifests

\* the frame of a parseConfigFile call that has opened its file
NewFrame(name) ==
    [cfg_file_name |-> name,
     dir   |-> dirname(name),
     lines |-> Manifests[abspath(name)],
     read  |-> 0,
     cfg   |-> <<>>]

\* c = c.strip(); c = c.split('#', 1)[0]
DropComment(line) == Split1(Strip(line), "#")[1]

\* cfg += parseConfigFile(...), with the included entries put first
Splice_Front(list, included) == included \o list

\* cfg += parseConfigFile(...)
Splice(list, included) == list \o included

\* a guard the script does not have: a manifest that is being parsed is not
\* parsed again, the include resolves to nothing
IncludeName_SkipActive(dir, line) ==
    IF \E i \in DOMAIN stack :
          abspath(stack[i].cfg_file_name) = abspath(join(dir, Drop(line, 2)))
    THEN ""
    ELSE join(dir, Drop(line, 2))

\* the name of the file a C: line includes: os.path.join(dir, c[2:])
IncludeName(dir, line) == join(dir, Drop(line, 2))

\* the recursion depth at which the interpreter gives up: a stand-in for
\* sys.getrecursionlimit() and for the limit on open files
MaxDepth == 4

\* What reading one line does, up to the recursive call: the line after
\* comment removal and expansion, the environment afterwards, and what is to
\* be done with the line.  No line of the manifests below names
\* QUARTUS_VERSION, so the test of lines 258-261 fails on every line and
\* getQuartusVersion is not called.
ReadLineEffect(o, frame, env) ==
    LET raw      == frame.lines[frame.read + 1]
        stripped == DropComment(raw)
        needsFam == Contains(stripped, FAMILY) /\ FAMILY \notin DOMAIN env
        fam      == IF needsFam THEN addDefaultFpgaFamily(o, env)
                    ELSE [ok |-> TRUE, env |-> env, started |-> 0, msg |-> ""]
        line     == expandvars(stripped, fam.env)
    IN  [refers  |-> Contains(stripped, FAMILY),
         env     |-> fam.env,
         started |-> fam.started,
         line    |-> line,
         what    |-> IF ~fam.ok THEN "errorExit"
                     ELSE IF Take(line, 2) = "C:" THEN "include"
                     ELSE IF Len(line) # 0 THEN
                         (IF fixRelPathRaises(line, frame.dir) THEN "raise" ELSE "append")
                     ELSE "skip",
         msg     |-> fam.msg]

\* the top frame with one more line read
Advance(frame) == [frame EXCEPT !.read = @ + 1]

\* the stack with its top frame replaced
SetTop(frames, frame) == [frames EXCEPT ![Len(frames)] = frame]

\* main: cfg = parseConfigFile(opts, opts.config_file, opts.rel)
ParseStart ==
    /\ pc = "main"
    /\ IF Len(opts.config_file) = 0
       THEN /\ pc' = "parsed"
            /\ cfg' = <<>>
            /\ UNCHANGED <<stack, exit_msg>>
       ELSE IF ~CanOpen(opts.config_file)
       THEN /\ pc' = "fatal"
            /\ exit_msg' = "failed to open file"
            /\ UNCHANGED <<stack, cfg>>
       ELSE /\ pc' = "parsing"
            /\ stack' = <<NewFrame(opts.config_file)>>
            /\ UNCHANGED <<cfg, exit_msg>>
    /\ steps' = steps + 1
    /\ UNCHANGED <<opts, world, environ, invocations, refs, returned>>
    /\ UNCHANGED <<emitVars, tagVars, pathVars>>

\* one iteration of "for c in cfg_file" in the innermost call
ReadLine ==
    /\ pc = "parsing"
    /\ LET frame == stack[Len(stack)]
       IN  /\ frame.read < Len(frame.lines)
           /\ \E e \in {ReadLineEffect(opts, frame, environ)} :
              \E name \in {IncludeName(frame.dir, e.line)} :
                  /\ environ' = e.env
                  /\ invocations' = invocations + e.started
                  /\ refs' = refs + (IF e.refers THEN 1 ELSE 0)
                  /\ CASE e.what = "errorExit" ->
                            /\ pc' = "fatal"
                            /\ exit_msg' = e.msg
                            /\ UNCHANGED stack
                       [] e.what = "raise" ->
                            /\ pc' = "crash"
                            /\ exit_msg' = "ValueError: no path specified"
                            /\ UNCHANGED stack
                       [] e.what = "skip" ->
                            /\ stack' = SetTop(stack, Advance(frame))
                            /\ UNCHANGED <<pc, exit_msg>>
                       [] e.what = "append" ->
                            /\ stack' = SetTop(stack,
                                 [Advance(frame) EXCEPT !.cfg =
                                     Append(@, fixRelPath(opts, e.line, frame.dir, opts.rel))])
                            /\ UNCHANGED <<pc, exit_msg>>
                       [] e.what = "include" /\ Len(name) = 0 ->
                            \* the callee returns [] at once
                            /\ stack' = SetTop(stack, Advance(frame))
                            /\ UNCHANGED <<pc, exit_msg>>
                       [] e.what = "include" /\ Len(name) # 0 /\ ~CanOpen(name) ->
                            /\ pc' = "fatal"
                            /\ exit_msg' = "failed to open file"
                            /\ UNCHANGED stack
                       [] e.what = "include" /\ Len(name) # 0 /\ CanOpen(name)
                                             /\ Len(stack) < MaxDepth ->
                            /\ stack' = Append(SetTop(stack, Advance(frame)), NewFrame(name))
                            /\ UNCHANGED <<pc, exit_msg>>
                       [] e.what = "include" /\ Len(name) # 0 /\ CanOpen(name)
                                             /\ Len(stack) >= MaxDepth ->
                            \* the interpreter's limits are hit: RecursionError is
                            \* not caught; an open() that fails for lack of file
                            \* descriptors is an IOError
                            /\ \E how \in {"crash", "fatal"} :
                                  /\ pc' = how
                                  /\ exit_msg' = IF how = "crash" THEN "RecursionError"
                                                 ELSE "failed to open file"
                            /\ UNCHANGED stack
    /\ steps' = steps + 1
    /\ UNCHANGED <<opts, world, cfg, returned>>
    /\ UNCHANGED <<emitVars, tagVars, pathVars>>

\* "return cfg" of the innermost call, and "cfg += ..." in its caller
ReturnCfg ==
    /\ pc = "parsing"
    /\ LET frame == stack[Len(stack)]
           rest  == SubSeq(stack, 1, Len(stack) - 1)
       IN  /\ frame.read = Len(frame.lines)
           /\ returned' = returned \cup {abspath(frame.cfg_file_name)}
           /\ IF rest = <<>>
              THEN /\ cfg' = frame.cfg
                   /\ pc' = "parsed"
                   /\ stack' = <<>>
              ELSE /\ stack' = SetTop(rest,
                        [rest[Len(rest)] EXCEPT !.cfg = Splice(@, frame.cfg)])
                   /\ UNCHANGED <<pc, cfg>>
    /\ steps' = steps + 1
    /\ UNCHANGED <<opts, world, environ, exit_msg, invocations, refs>>
    /\ UNCHANGED <<emitVars, tagVars, pathVars>>

NextParse == ParseStart \/ ReadLine \/ ReturnCfg

-----------------------------------------------------------------------------
(* Runs of the parser *)

\* the sequences over S of length at most n
BoundedSeq(S, n) == UNION {[1..k -> S] : k \in 0..n}

\* the longest manifest drawn for the command line's file
MaxLines == 2

\* lines for the manifest named on the command line: sources with and without
\* comments, directives, includes of existing, missing and including
\* manifests, a directory, a reference to the family
RootLines ==
    {"top.sv\n", "top.sv  # note\n", "top.sv#note\n", "\t top.sv \n", "# note\n", "   \n",
     "C:b.txt\n", "C:sub/d.txt\n", "C:loop.txt\n", "C:a.txt\n", "C:gone.txt\n",
     "rtl\n", "QI:setup.tcl\n", "+define+FOO\n", "+incdir+../rtl\n",
     "ip_$OPAE_PLATFORM_FPGA_FAMILY.qsys\n"}

\* the release library of the platform
ReleaseLib == "/rel/hw/lib"

IdleTagPath ==
    /\ filename = "" /\ db = "" /\ tag = None
    /\ c = "" /\ config_dir = "" /\ once = "" /\ twice = ""

InitParse ==
    /\ pc = "main"
    /\ \E lines \in BoundedSeq(RootLines, MaxLines),
          env \in {(FAMILY :> "S10"), ("OPAE_PLATFORM_ROOT" :> "/rel/")} :
          world = [cwd |-> "/w", manifest |-> lines, stdout |-> <<"A10\n">>, rc |-> 0,
                   release |-> {ReleaseLib}, environ |-> env]
    /\ \E rel \in {"/w", "/w/src"}, abs \in BOOLEAN :
          opts = ParseArgs("src/a.txt", "", rel, abs, FALSE, None)
    /\ environ = world.environ
    /\ stack = <<>> /\ cfg = <<>> /\ out = <<>> /\ pos = 0 /\ exit_msg = ""
    /\ invocations = 0 /\ refs = 0 /\ returned = {} /\ steps = 0
    /\ IdleTagPath

SpecParse == InitParse /\ [][NextParse]_vars

\* lines that do and do not reference the family
FamilyLines ==
    {"top.sv\n", "ip_$OPAE_PLATFORM_FPGA_FAMILY.qsys\n", "${OPAE_PLATFORM_FPGA_FAMILY}/pll.ip\n",
     "C:sub/d.txt\n"}

\* what the afu_platform_info command may print
FamilyOutputs == {<<>>, <<"A10\n">>, <<"Arria 10\n", "S10\n">>}

\* where the release library is looked for: --lib, BBS_LIB_PATH,
\* OPAE_PLATFORM_ROOT, nowhere, or a directory that is no release
LibSettings ==
    {[lib |-> ReleaseLib, env |-> NoEnv],
     [lib |-> None, env |-> ("BBS_LIB_PATH" :> "/rel/hw/lib/")],
     [lib |-> None, env |-> ("OPAE_PLATFORM_ROOT" :> "/rel/")],
     [lib |-> None, env |-> ("BBS_LIB_PATH" :> "/tmp")],
     [lib |-> None, env |-> NoEnv]}

InitFamily ==
    /\ pc = "main"
    /\ \E lines \in BoundedSeq(FamilyLines, MaxLines), printed \in FamilyOutputs, rc \in {0, 1},
          quiet \in BOOLEAN, s \in LibSettings, preset \in BOOLEAN :
          /\ world = [cwd |-> "/w", manifest |-> lines, stdout |-> printed, rc |-> rc,
                      release |-> {ReleaseLib},
                      environ |-> IF preset THEN (FAMILY :> "S10") @@ s.env ELSE s.env]
          /\ opts = ParseArgs("src/a.txt", "", "/w", FALSE, quiet, s.lib)
    /\ environ = world.environ
    /\ stack = <<>> /\ cfg = <<>> /\ out = <<>> /\ pos = 0 /\ exit_msg = ""
    /\ invocations = 0 /\ refs = 0 /\ returned = {} /\ steps = 0
    /\ IdleTagPath

SpecFamily == InitFamily /\ [][NextParse]_vars

-----------------------------------------------------------------------------
(* emitCfg: the resolved list printed for the target *)

\* file_type_filter of emitCfg
file_type_filter(o) == o.qsys \/ o.ipx \/ o.json \/ o.tcl

\* the Tcl variable for relative paths is generated
UsesThisDir(o) == ~file_type_filter(o) /\ ~o.sim /\ ~o.abs

\* rel_prefix of emitCfg
rel_prefix(o) == IF UsesThisDir(o) THEN "${THIS_DIR}/" ELSE ""

\* what is printed before any entry is looked at; print() ends the text with
\* a newline of its own, which the model leaves out of every line
Preamble(o) ==
    IF UsesThisDir(o) THEN <<"set THIS_DIR [file dirname [info script]]\n">> ELSE <<>>

\* what the first loop prints for an entry
DefineLines(o, entry) ==
    IF Take(entry, 8) # "+define+" THEN <<>>
    ELSE IF o.sim_vlog THEN <<entry>>
    ELSE IF o.sim_vhdl THEN <<>>
    ELSE <<"set_global_assignment -name VERILOG_MACRO \"" \o Drop(entry, 8) \o "\"">>

\* what the second loop prints for an entry
IncdirLines(o, entry) ==
    IF Take(entry, 8) # "+incdir+" THEN <<>>
    ELSE IF o.sim_vlog THEN <<entry>>
    ELSE IF o.sim_vhdl THEN <<>>
    ELSE <<"set_global_assignment -name SEARCH_PATH \"" \o rel_prefix(o)
             \o Drop(entry, 8) \o "\"">>

\* cmd, value = c.split(':', 1), has_cmd FALSE when there is no ':'
SplitCmd(entry) ==
    LET split == Split1(entry, ":")
    IN  IF Len(split) = 2
        THEN [has_cmd |-> TRUE, cmd |-> split[1], value |-> split[2]]
        ELSE [has_cmd |-> FALSE, cmd |-> "", value |-> ""]

\* the entry takes the last branch of the third loop: it is neither a
\* directive starting with '+' nor an SI, SI_VLOG, SI_VHDL or QI command
IsSourceFile(entry) ==
    /\ Take(entry, 1) # "+"
    /\ LET s == SplitCmd(entry)
       IN  ~(s.has_cmd /\ s.cmd \in {"SI", "SI_VLOG", "SI_VHDL", "QI"})

\* every recognized file is printed, whatever the target
ModeTable_Quartus(o) == quartus_tag_map

\* the table a source file is looked up in, by the chain of tests on opts
ModeTable(o) ==
    IF o.sim_vlog THEN sim_vlog_tag_map
    ELSE IF o.sim_vhdl THEN sim_vhdl_tag_map
    ELSE IF o.json THEN json_tag_map
    ELSE IF o.qsys THEN qsys_tag_map
    ELSE IF o.ipx THEN qsys_ipx_tag_map
    ELSE IF o.tcl THEN tcl_tag_map
    ELSE quartus_tag_map

\* one of the tests of that chain succeeds: the file is printed bare
PrintsBare(o) == o.sim_vlog \/ o.sim_vhdl \/ o.json \/ o.qsys \/ o.ipx \/ o.tcl

\* bare Tcl scripts are printed like any other tagged file
Suppressed_Never(t) == FALSE

\* the tag of bare .tcl files, which Quartus flows ignore
Suppressed(t) == t = "SOURCE_TCL_SCRIPT_FILE"

\* the third loop with directives printed where they stand
SourceLines_Inline(o, entry) ==
    IF Take(entry, 8) = "+define+" THEN DefineLines(o, entry)
    ELSE IF Take(entry, 8) = "+incdir+" THEN IncdirLines(o, entry)
    ELSE LET s == SplitCmd(entry)
             t == lookupTag(entry, ModeTable(o))
         IN  IF s.has_cmd /\ s.cmd = "QI"
             THEN <<"source \"" \o rel_prefix(o) \o s.value \o "\"">>
             ELSE IF t # None /\ ~Suppressed(t)
             THEN <<"set_global_assignment -name " \o t \o " \"" \o rel_prefix(o)
                      \o entry \o "\"">>
             ELSE <<>>

\* what the third loop prints for an entry that validateTag accepts
SourceLines(o, entry) ==
    LET s == SplitCmd(entry)
    IN  IF Take(entry, 1) = "+" THEN <<>>
        ELSE IF s.has_cmd /\ s.cmd \in {"SI", "SI_VLOG"}
        THEN IF lookupTag(s.value, tcl_tag_map) # None /\ (o.sim_vlog \/ o.tcl)
             THEN <<s.value>>
             ELSE IF o.sim_vlog THEN <<"-F " \o s.value>> ELSE <<>>
        ELSE IF s.has_cmd /\ s.cmd = "SI_VHDL"
        THEN IF lookupTag(s.value, tcl_tag_map) # None /\ (o.sim_vhdl \/ o.tcl)
             THEN <<s.value>>
             ELSE IF o.sim_vhdl THEN <<"-F " \o s.value>> ELSE <<>>
        ELSE IF s.has_cmd /\ s.cmd = "QI"
        THEN IF ~o.sim /\ ~file_type_filter(o)
             THEN <<"source \"" \o rel_prefix(o) \o s.value \o "\"">>
             ELSE <<>>
        ELSE LET t == lookupTag(entry, ModeTable(o))
             IN  IF PrintsBare(o)
                 THEN IF t # None THEN <<entry>> ELSE <<>>
                 ELSE IF t # None /\ ~Suppressed(t)
                 THEN <<"set_global_assignment -name " \o t \o " \"" \o rel_prefix(o)
                          \o entry \o "\"">>
                 ELSE <<>>

\* the lines printed for the entry at position i, as they are kept in out
Printed(lines, i) == [k \in 1..Len(lines) |-> [entry |-> i, text |-> lines[k]]]

\* emitCfg up to its first loop
EmitStart ==
    /\ pc = "parsed"
    /\ out' = out \o Printed(Preamble(opts), 0)
    /\ pos' = 1
    /\ pc' = IF file_type_filter(opts) THEN "sources" ELSE "defines"
    /\ UNCHANGED <<opts, world, cfg, exit_msg, parseVars, tagVars, pathVars>>

\* one iteration of "First emit all preprocessor configuration"
EmitDefine ==
    /\ pc = "defines"
    /\ IF pos <= Len(cfg)
       THEN /\ out' = out \o Printed(DefineLines(opts, cfg[pos]), pos)
            /\ pos' = pos + 1
            /\ pc' = pc
       ELSE /\ pc' = "incdirs"
            /\ pos' = 1
            /\ out' = out
    /\ UNCHANGED <<opts, world, cfg, exit_msg, parseVars, tagVars, pathVars>>

\* one iteration of "Emit all include directives"
EmitIncdir ==
    /\ pc = "incdirs"
    /\ IF pos <= Len(cfg)
       THEN /\ out' = out \o Printed(IncdirLines(opts, cfg[pos]), pos)
            /\ pos' = pos + 1
            /\ pc' = pc
       ELSE /\ pc' = "sources"
            /\ pos' = 1
            /\ out' = out
    /\ UNCHANGED <<opts, world, cfg, exit_msg, parseVars, tagVars, pathVars>>

\* one iteration of "Emit sources and Quartus/simulator includes"; errorExit
\* of validateTag ends the run where the loop stands
EmitSource ==
    /\ pc = "sources"
    /\ IF pos > Len(cfg)
       THEN /\ pc' = "emitted"
            /\ UNCHANGED <<out, pos, exit_msg>>
       ELSE IF IsSourceFile(cfg[pos]) /\ ~validateTag(cfg[pos])
       THEN /\ pc' = "fatal"
            /\ exit_msg' = "unrecognized file extension"
            /\ UNCHANGED <<out, pos>>
       ELSE /\ out' = out \o Printed(SourceLines(opts, cfg[pos]), pos)
            /\ pos' = pos + 1
            /\ UNCHANGED <<pc, exit_msg>>
    /\ UNCHANGED <<opts, world, cfg, parseVars, tagVars, pathVars>>

NextEmit == EmitStart \/ EmitDefine \/ EmitIncdir \/ EmitSource

\* the longest list drawn for emitCfg
MaxCfgLen == 2

\* entries of a resolved list: the directives, the commands, files of every
\* table and of none, an upper-case extension, an unknown command
EmitEntries ==
    {"+define+FOO", "+incdir+../rtl", "+libext+.v", "top.sv", "TOP.SV", "core.vhd",
     "setup.tcl", "ip.qsys", "desc.json", "lib.ipx", "weird.xyz", "x:top.sv",
     "QI:setup.tcl", "SI:sim.tcl", "SI_VLOG:files.f", "SI_VHDL:vhdl.f"}

\* longer lists: the one of the manual, and files around a file of no table
EmitExamples ==
    {<<"+define+FOO", "+incdir+../rtl", "top.sv", "QI:setup.tcl">>,
     <<"top.sv", "weird.xyz", "+incdir+inc">>,
     <<"desc.json", "weird.xyz", "+define+BAR", "top.sv">>}

\* main after parseConfigFile has returned; the manifest lay in the working
\* directory, which is the target directory, so the entries are as written
InitEmit ==
    /\ pc = "parsed"
    /\ world = NoWorld /\ environ = NoEnv
    /\ cfg \in BoundedSeq(EmitEntries, MaxCfgLen) \cup EmitExamples
    /\ \E flag \in TargetFlags, abs \in BOOLEAN :
          opts = ParseArgs("a.txt", flag, "/w", abs, FALSE, None)
    /\ stack = <<>> /\ out = <<>> /\ pos = 0 /\ exit_msg = ""
    /\ invocations = 0 /\ refs = 0 /\ returned = {} /\ steps = 0
    /\ IdleTagPath

SpecEmit == InitEmit /\ [][NextEmit]_vars

-----------------------------------------------------------------------------
(* Properties *)

\* the tag table as documented: sixteen extensions
DocumentedTag ==
    (".v"    :> "VERILOG_FILE") @@
    (".sv"   :> "SYSTEMVERILOG_FILE") @@
    (".vh"   :> "SYSTEMVERILOG_FILE") @@
    (".svh"  :> "SYSTEMVERILOG_FILE") @@
    (".vhd"  :> "VHDL_FILE") @@
    (".vhdl" :> "VHDL_FILE") @@
    (".sdc"  :> "SDC_FILE") @@
    (".qsys" :> "QSYS_FILE") @@
    (".ip"   :> "IP_FILE") @@
    (".qip"  :> "QIP_FILE") @@
    (".json" :> "MISC_FILE") @@
    (".tcl"  :> "SOURCE_TCL_SCRIPT_FILE") @@
    (".stp"  :> "USE_SIGNALTAP_FILE") @@
    (".hex"  :> "MIF_FILE") @@
    (".mif"  :> "MIF_FILE") @@
    (".ipx"  :> "IPX_FILE")

\* filename is some base name followed by ext written in some letter case
HasExt(ext) ==
    \E e \in Cases(ext) :
        Len(e) <= Len(filename) /\ Drop(filename, Len(filename) - Len(e)) = e

\* C4 as claimed: a lookup in the full synthesis table returns the documented
\* tag, never None, for each of the sixteen documented extensions in any
\* letter case.
C4_LookupTotalOverSixteen ==
    (pc = "tag_looked_up" /\ db = "quartus") =>
        \A ext \in DOMAIN DocumentedTag :
            HasExt(ext) => (tag = DocumentedTag[ext] /\ tag # None)

\* C4 as amended: a lookup in the full synthesis table returns the documented
\* tag, never None, for the fifteen documented extensions other than .ipx, in
\* any letter case; for .ipx it returns None, and only the ipx table maps .ipx
\* (to IPX_FILE).
C4_LookupTotalOverFifteen ==
    pc = "tag_looked_up" =>
        /\ db = "quartus" =>
              \A ext \in DOMAIN DocumentedTag \ {".ipx"} :
                  HasExt(ext) => (tag = DocumentedTag[ext] /\ tag # None)
        /\ HasExt(".ipx") =>
              tag = (IF db = "ipx" THEN "IPX_FILE" ELSE None)

\* C4 witness: an upper-case extension looked up in the full synthesis table
C4_Witness ==
    /\ pc = "tag_looked_up"
    /\ db = "quartus"
    /\ filename = "rtl/core.d/top.QSYS"
    /\ tag = "QSYS_FILE"

\* the manifest directory and the target directory are the same directory
SameDirectory == abspath(config_dir) = abspath(opts.rel)

AllCfgs == {cfg} \cup {stack[i].cfg : i \in DOMAIN stack}

\* C6 as claimed: with OPAE_PLATFORM_FPGA_FAMILY unset at the start, a release
\* library in place and a command that exits 0, the command has been started
\* exactly once as soon as one line referencing the variable has been read,
\* whatever it printed and whatever the verbosity, and no entry is left with
\* the reference unsubstituted; with the variable set at the start the
\* command is never started.
C6_FamilyResolvedOnce ==
    /\ (/\ FAMILY \notin DOMAIN world.environ
        /\ getHWLibPath(opts, world.environ).ok
        /\ world.rc = 0)
       => /\ invocations = (IF refs > 0 THEN 1 ELSE 0)
          /\ \A list \in AllCfgs : \A i \in DOMAIN list : ~Contains(list[i], FAMILY)
    /\ FAMILY \in DOMAIN world.environ => invocations = 0

\* C6 failing run: the command is quiet, exits 0 and prints nothing; it is
\* started at each of the two referencing lines and both entries keep the
\* reference
C6_Witness ==
    /\ pc = "parsed"
    /\ opts.quiet /\ opts.lib = ReleaseLib
    /\ world.stdout = <<>> /\ world.rc = 0 /\ world.environ = NoEnv
    /\ world.manifest = <<"ip_$OPAE_PLATFORM_FPGA_FAMILY.qsys\n",
                          "${OPAE_PLATFORM_FPGA_FAMILY}/pll.ip\n">>
    /\ invocations = 2
    /\ cfg = <<"src/ip_$OPAE_PLATFORM_FPGA_FAMILY.qsys",
               "src/${OPAE_PLATFORM_FPGA_FAMILY}/pll.ip">>

\* what the claim takes parseConfigFile to return: the concatenation, line by
\* line, of one entry per directive and of the resolved file per C: line,
\* unfolded at most fuel includes deep
RECURSIVE Resolve(_, _), Contributions(_, _, _)
Resolve(name, fuel) ==
    IF Len(name) = 0 \/ fuel = 0 THEN <<>>
    ELSE Contributions(Manifests[abspath(name)], dirname(name), fuel)
Contributions(lines, dir, fuel) ==
    IF lines = <<>> THEN <<>>
    ELSE LET line == expandvars(DropComment(Head(lines)), environ)
         IN  (IF Take(line, 2) = "C:" THEN Resolve(join(dir, Drop(line, 2)), fuel - 1)
              ELSE IF line = "" THEN <<>>
              ELSE <<fixRelPath(opts, line, dir, opts.rel)>>)
             \o Contributions(Tail(lines), dir, fuel)

\* C2: whenever the innermost active call has no include pending, its list
\* is the concatenation of the contributions of the lines it has read, and
\* the list main receives is the resolution of the command line's manifest;
\* a manifest holding only C:b.txt resolves to the one entry of b.txt.
C2_ParseIsConcatenation ==
    /\ pc = "parsing" =>
          LET frame == stack[Len(stack)]
          IN  frame.cfg = Contributions(SubSeq(frame.lines, 1, frame.read), frame.dir, MaxDepth)
    /\ pc = "parsed" =>
          /\ cfg = Resolve(opts.config_file, MaxDepth)
          /\ world.manifest = <<"C:b.txt\n">> =>
                (Len(cfg) = 1 /\ cfg = Resolve("src/b.txt", MaxDepth))

\* C2 witness: the entries before an include, the included entries with
\* their paths adjusted, and the entries after it, in that order
C2_Witness ==
    /\ pc = "parsed"
    /\ world.manifest = <<"C:sub/d.txt\n", "+define+FOO\n">>
    /\ opts.rel = "/w" /\ ~opts.abs
    /\ cfg = <<"+incdir+src/sub/inc", "src/top.sv", "src/sub/ip_S10.qsys", "+define+FOO">>

\* the forms of a directive with a comment after it
Commented(x) == {x \o "\n", x \o "#note\n", x \o "  # note\n"}

\* C10 as claimed: a line resolves to the entry of its text before the first
\* '#' with the surrounding whitespace removed, so a directive followed by a
\* comment resolves as the directive alone, and no entry is empty or ends in
\* whitespace.
C10_CommentsLeaveNoTrace ==
    pc = "parsed" =>
        /\ \A x \in {"top.sv"} :
              world.manifest \in {<<l>> : l \in Commented(x)} =>
                  cfg = <<fixRelPath(opts, x, "src", opts.rel)>>
        /\ \A i \in DOMAIN cfg :
              cfg[i] # "" /\ At(cfg[i], Len(cfg[i])) \notin Whitespace

\* C10 failing run: the blanks between the file name and the comment stay
\* in the entry
C10_Witness ==
    /\ pc = "parsed"
    /\ world.manifest = <<"top.sv  # note\n">>
    /\ opts.rel = "/w" /\ ~opts.abs
    /\ cfg = <<"src/top.sv  ">>


\* the manifests a manifest includes: the readable targets of its C: lines
Includes(f) ==
    {abspath(join(dirname(f), Drop(line, 2))) :
        line \in {l \in {expandvars(DropComment(Manifests[f][i]), environ) :
                            i \in DOMAIN Manifests[f]} : Take(l, 2) = "C:"}}
      \cap DOMAIN Manifests

\* the include relation of the manifests that exist, as pairs <<f, g>>
IncludeGraph ==
    UNION {{<<f, g>> : g \in Includes(f)} : f \in DOMAIN Manifests}

\* the manifests reached from a set of manifests through the pairs of G
RECURSIVE Closure(_, _)
Closure(G, S) ==
    LET T == S \cup {e[2] : e \in {d \in G : d[1] \in S}}
    IN  IF T = S THEN S ELSE Closure(G, T)

\* the manifests that include themselves, directly or through others
SelfIncluding(G) ==
    {f \in DOMAIN Manifests : f \in Closure(G, {e[2] : e \in {d \in G : d[1] = f}})}

RootManifest == abspath(opts.config_file)

\* the steps a complete parse of manifest f takes after it is opened: one
\* per line, one for the return, and those of the manifests it includes
RECURSIVE Work(_, _), LineWork(_, _, _)
Work(f, fuel) ==
    IF fuel = 0 THEN 0 ELSE 1 + LineWork(Manifests[f], dirname(f), fuel)
LineWork(lines, dir, fuel) ==
    IF lines = <<>> THEN 0
    ELSE LET line == expandvars(DropComment(Head(lines)), environ)
             name == join(dir, Drop(line, 2))
         IN  1 + (IF Take(line, 2) = "C:" /\ CanOpen(name)
                  THEN Work(abspath(name), fuel - 1) ELSE 0)
               + LineWork(Tail(lines), dir, fuel)

\* C8: the parser is never stuck while a call is active.  When no manifest
\* reached from the command line's manifest includes itself, the parse takes
\* at most the steps of one pass over the include tree, never reaches the
\* interpreter's limit, and ends with a list after exactly those steps, or
\* earlier in errorExit.  A call on a manifest that includes itself never
\* returns, so a parse of such a manifest never yields a list, and the only
\* ends are errorExit and the interpreter giving up: no error about a
\* circular include exists.
C8_NoCycleGuard ==
    /\ pc = "parsing" =>
          (stack # <<>> /\ stack[Len(stack)].read <= Len(stack[Len(stack)].lines))
    /\ exit_msg \in {"", "failed to open file", "RecursionError"}
    /\ pc \in {"parsing", "parsed", "fatal", "crash"} =>
          \A G \in {IncludeGraph} : \A cyclic \in {SelfIncluding(G)} :
             /\ returned \cap cyclic = {}
             /\ RootManifest \in cyclic => pc # "parsed"
             /\ Closure(G, {RootManifest}) \cap cyclic = {} =>
                   \A work \in {1 + Work(RootManifest, MaxDepth)} :
                      /\ steps <= work
                      /\ pc # "crash"
                      /\ pc = "parsed" => steps = work

\* C8 witness: a manifest that includes itself through loop.txt is read
\* again and again until the interpreter gives up; nothing has returned
C8_Witness ==
    /\ pc = "crash"
    /\ exit_msg = "RecursionError"
    /\ world.manifest = <<"C:loop.txt\n">>
    /\ Len(stack) = MaxDepth
    /\ returned = {}

-----------------------------------------------------------------------------
(* What emitCfg prints *)

\* plain synthesis: no simulation flag and no file type filter
PlainSynthesis ==
    ~opts.sim /\ ~opts.qsys /\ ~opts.tcl /\ ~opts.ipx /\ ~opts.json

\* emitCfg is running or has ended
Emitting == pc \in {"defines", "incdirs", "sources", "emitted", "fatal"}

StartsWith(s, p) == Take(s, Len(p)) = p

MacroPrefix  == "set_global_assignment -name VERILOG_MACRO \""
SearchPrefix == "set_global_assignment -name SEARCH_PATH \""
AssignPrefix == "set_global_assignment -name "
SourcePrefix == "source \""
ThisDirLine  == "set THIS_DIR [file dirname [info script]]\n"

\* where a line of plain synthesis output belongs: 0 the THIS_DIR variable,
\* 1 the macros, 2 the search paths, 3 the source files and source commands
Rank(text) ==
    IF text = ThisDirLine THEN 0
    ELSE IF StartsWith(text, MacroPrefix) THEN 1
    ELSE IF StartsWith(text, SearchPrefix) THEN 2
    ELSE 3

\* the texts of the lines of out that belong to rank r, in output order
RECURSIVE TextsOfRank(_, _)
TextsOfRank(lines, r) ==
    IF lines = <<>> THEN <<>>
    ELSE (IF Rank(Head(lines).text) = r THEN <<Head(lines).text>> ELSE <<>>)
           \o TextsOfRank(Tail(lines), r)

\* the entries of a list that start with a prefix, without it, in list order
RECURSIVE Directives(_, _)
Directives(list, p) ==
    IF list = <<>> THEN <<>>
    ELSE (IF StartsWith(Head(list), p) THEN <<Drop(Head(list), Len(p))>> ELSE <<>>)
           \o Directives(Tail(list), p)

\* the texts of the lines printed for the entry at position i, in output order
RECURSIVE LinesOf(_, _)
LinesOf(lines, i) ==
    IF lines = <<>> THEN <<>>
    ELSE (IF Head(lines).entry = i THEN <<Head(lines).text>> ELSE <<>>)
           \o LinesOf(Tail(lines), i)

\* the third loop has dealt with the entry at position i
Handled(i) ==
    \/ pc = "emitted"
    \/ pc \in {"sources", "fatal"} /\ pos > i

\* the prefix of relative paths in plain synthesis
ThisDir == IF opts.abs THEN "" ELSE "${THIS_DIR}/"

ExampleCfg == <<"+define+FOO", "+incdir+../rtl", "top.sv", "QI:setup.tcl">>

\* C1: in plain synthesis the output is ordered: the THIS_DIR variable if
\* there is one, the macro assignments, the search path assignments, then the
\* source file assignments and source commands, each group in manifest order;
\* once the first loop is done the macro assignments are exactly the +define+
\* entries, once the second is done the search paths are exactly the +incdir+
\* entries, and every line of the last group comes from an entry that is no
\* directive.  The manifest +define+FOO, +incdir+../rtl, top.sv, QI:setup.tcl
\* gives a macro, a search path, a SYSTEMVERILOG_FILE assignment and a source
\* command, in this order.
C1_DirectivesBeforeSources ==
    PlainSynthesis /\ Emitting =>
       /\ \A j, k \in DOMAIN out :
             j < k => /\ Rank(out[j].text) <= Rank(out[k].text)
                      /\ Rank(out[j].text) = Rank(out[k].text) =>
                            out[j].entry < out[k].entry
       /\ \A k \in DOMAIN out :
             Rank(out[k].text) = 3 =>
                /\ out[k].entry \in DOMAIN cfg
                /\ ~StartsWith(cfg[out[k].entry], "+")
                /\ \/ StartsWith(out[k].text, AssignPrefix)
                   \/ StartsWith(out[k].text, SourcePrefix)
       /\ pc # "defines" =>
             \A d \in {Directives(cfg, "+define+")} :
                TextsOfRank(out, 1) = [k \in DOMAIN d |-> MacroPrefix \o d[k] \o "\""]
       /\ pc \notin {"defines", "incdirs"} =>
             \A d \in {Directives(cfg, "+incdir+")} :
                TextsOfRank(out, 2) =
                   [k \in DOMAIN d |-> SearchPrefix \o ThisDir \o d[k] \o "\""]
       /\ cfg = ExampleCfg /\ pc = "emitted" =>
             TextsOfRank(out, 1) \o TextsOfRank(out, 2) \o TextsOfRank(out, 3) =
                <<MacroPrefix \o "FOO\"",
                  SearchPrefix \o ThisDir \o "../rtl\"",
                  AssignPrefix \o "SYSTEMVERILOG_FILE \"" \o ThisDir \o "top.sv\"",
                  SourcePrefix \o ThisDir \o "setup.tcl\"">>

\* C1 witness: a source file ahead of the directives; the macro and the
\* search path are printed before it all the same
C1_Witness ==
    /\ pc = "emitted"
    /\ PlainSynthesis /\ ~opts.abs
    /\ cfg = <<"top.sv", "+define+FOO">>
    /\ out = <<[entry |-> 0, text |-> ThisDirLine],
               [entry |-> 2, text |-> "set_global_assignment -name VERILOG_MACRO \"FOO\""],
               [entry |-> 1, text |->
                   "set_global_assignment -name SYSTEMVERILOG_FILE \"${THIS_DIR}/top.sv\""]>>

\* the extensions of the seven tables
Recognized ==
    DOMAIN quartus_tag_map \cup DOMAIN qsys_tag_map \cup DOMAIN tcl_tag_map
       \cup DOMAIN qsys_ipx_tag_map \cup DOMAIN json_tag_map
       \cup DOMAIN sim_vlog_tag_map \cup DOMAIN sim_vhdl_tag_map

\* the entry at position k is a source file whose extension no table has
Unrecognized(k) ==
    IsSourceFile(cfg[k]) /\ Lower(splitext_ext(cfg[k])) \notin Recognized

\* with such an entry at position k, the third loop ends there or earlier in
\* errorExit, and the entries before it that it reached have their lines
StopsAt(k) ==
    /\ pc # "emitted"
    /\ pc \in {"sources", "fatal"} => pos <= k
    /\ pc = "fatal" => exit_msg = "unrecognized file extension"
    /\ pc = "sources" /\ pos = k =>
          \A i \in 1..(k - 1) :
             IsSourceFile(cfg[i]) /\ PlainSynthesis =>
                LinesOf(out, i) # <<>> \/ Lower(splitext_ext(cfg[i])) \in {".tcl", ".ipx"}

\* C3 as claimed: under every target, a source file of unrecognized extension
\* ends emitCfg in errorExit when the third loop reaches it, and the output
\* has no line of that entry or of any entry after it
C3_NothingFromLaterEntries ==
    Emitting =>
       \A k \in DOMAIN cfg :
          Unrecognized(k) =>
             /\ StopsAt(k)
             /\ \A j \in DOMAIN out : out[j].entry < k

\* C3: under every target, a source file of unrecognized extension ends
\* emitCfg in errorExit when the third loop reaches it; the output has no
\* line of that entry, and of the entries after it only the lines the first
\* two loops printed for their +define+ and +incdir+ directives
C3_NothingFromThatEntry ==
    Emitting =>
       \A k \in DOMAIN cfg :
          Unrecognized(k) =>
             /\ StopsAt(k)
             /\ \A j \in DOMAIN out :
                   \/ out[j].entry < k
                   \/ /\ out[j].entry > k
                      /\ \/ StartsWith(cfg[out[j].entry], "+define+")
                         \/ StartsWith(cfg[out[j].entry], "+incdir+")
                      /\ out[j].text \in
                            {MacroPrefix \o Drop(cfg[out[j].entry], 8) \o "\"",
                             SearchPrefix \o ThisDir \o Drop(cfg[out[j].entry], 8) \o "\"",
                             cfg[out[j].entry]}

\* C3 witness: errorExit at weird.xyz; top.sv before it is printed, and so
\* is the search path of the +incdir+ after it
C3_Witness ==
    /\ pc = "fatal"
    /\ exit_msg = "unrecognized file extension"
    /\ PlainSynthesis /\ opts.abs
    /\ cfg = <<"top.sv", "weird.xyz", "+incdir+inc">>
    /\ pos = 2
    /\ out = <<[entry |-> 3, text |-> "set_global_assignment -name SEARCH_PATH \"inc\""],
               [entry |-> 1, text |->
                   "set_global_assignment -name SYSTEMVERILOG_FILE \"top.sv\""]>>

\* the extensions of the table that belongs to the target, by its flag
TableOfTarget ==
    IF opts.sim_vlog THEN {".v", ".sv", ".vh", ".svh", ".json"}
    ELSE IF opts.sim_vhdl THEN {".vhd", ".vhdl"}
    ELSE IF opts.qsys THEN {".qsys", ".qip", ".ip"}
    ELSE IF opts.tcl THEN {".tcl"}
    ELSE IF opts.ipx THEN {".ipx"}
    ELSE IF opts.json THEN {".json"}
    ELSE {}

\* C7: under every target but plain synthesis, a source file of recognized
\* extension that the third loop has dealt with has one line, its bare path,
\* when its extension is in the target's table, and no line when it is not;
\* a QI: entry has no line
C7_RestrictedModesFilter ==
    Emitting /\ ~PlainSynthesis =>
       \A i \in DOMAIN cfg :
          Handled(i) =>
             /\ IsSourceFile(cfg[i]) /\ Lower(splitext_ext(cfg[i])) \in Recognized =>
                   LinesOf(out, i) =
                      IF Lower(splitext_ext(cfg[i])) \in TableOfTarget
                      THEN <<cfg[i]>> ELSE <<>>
             /\ StartsWith(cfg[i], "QI:") => LinesOf(out, i) = <<>>

\* C7 witness: the manifest of the example for Verilog simulation
C7_Witness ==
    /\ pc = "emitted"
    /\ opts.sim_vlog
    /\ cfg = ExampleCfg
    /\ out = <<[entry |-> 1, text |-> "+define+FOO"],
               [entry |-> 2, text |-> "+incdir+../rtl"],
               [entry |-> 3, text |-> "top.sv"]>>

\* C9: in plain synthesis no SOURCE_TCL_SCRIPT_FILE assignment is printed, a
\* source file with extension .tcl that the third loop has dealt with has no
\* line, a QI: entry it has dealt with has exactly one line, the source
\* command of its path, and every line of an entry whose path ends in .tcl is
\* the source command of a QI: entry
C9_BareTclSuppressed ==
    Emitting /\ PlainSynthesis =>
       /\ \A j \in DOMAIN out :
             /\ ~StartsWith(out[j].text, AssignPrefix \o "SOURCE_TCL_SCRIPT_FILE")
             /\ out[j].entry \in DOMAIN cfg
                   /\ Lower(splitext_ext(cfg[out[j].entry])) = ".tcl" =>
                   /\ StartsWith(cfg[out[j].entry], "QI:")
                   /\ StartsWith(out[j].text, SourcePrefix)
       /\ \A i \in DOMAIN cfg :
             Handled(i) =>
                /\ IsSourceFile(cfg[i]) /\ Lower(splitext_ext(cfg[i])) = ".tcl" =>
                      LinesOf(out, i) = <<>>
                /\ StartsWith(cfg[i], "QI:") =>
                      LinesOf(out, i) =
                         <<SourcePrefix \o ThisDir \o Drop(cfg[i], 3) \o "\"">>

\* C9 witness: the same script bare and through QI:, printed once
C9_Witness ==
    /\ pc = "emitted"
    /\ PlainSynthesis /\ ~opts.abs
    /\ cfg = <<"setup.tcl", "QI:setup.tcl">>
    /\ out = <<[entry |-> 0, text |-> ThisDirLine],
               [entry |-> 2, text |-> "source \"${THIS_DIR}/setup.tcl\""]>>

=============================================================================
